---- MODULE Spec2Model ----
(***************************************************************************)
(* The Form 460 schema of calaccess_processed (form460.py) as a relational *)
(* store: sixteen tables, their NOT NULL columns, primary keys,            *)
(* unique_together constraints and foreign keys (db_constraint,            *)
(* on_delete=SET_NULL), with the row operations Django's ORM derives from  *)
(* those declarations (INSERT, DELETE with the SET_NULL collector), the    *)
(* string forms of the rows, concurrent writers, and the register          *)
(* operations of the ingestion collaborator.                               *)
(***************************************************************************)
EXTENDS Integers, FiniteSets, Sequences, TLC

VARIABLES
    db,      \* the store: the set of rows of each table
    nextId,  \* the next synthetic id of each table with an automatic primary key
    writers, \* the position of each concurrent writer and the row it inserts
    deleter  \* the position of the connection running Model.delete()

vars == <<db, nextId, writers, deleter>>

-----------------------------------------------------------------------------
(* Bound of the model, and the values rows are written with.               *)

\* rows with a synthetic id (versions and item rows) the store holds at once,
\* and the synthetic ids one table hands out, under Spec
MaxRows == 2

\* SQL NULL (null=True columns; an absent value of an insertion)
NULL == -1

FilingIds == {1001, 1002}
LineItems == {1, 2}
Amounts == {2500}

-----------------------------------------------------------------------------
(* The tables (one per concrete model class).                              *)

FilingTable == "Form460Filing"
VersionTable == "Form460FilingVersion"

Families == {"A", "C", "D", "E", "ESub", "G", "I"}

CurrentItemTable(fam) ==
    CASE fam = "A" -> "Form460ScheduleAItem"
      [] fam = "C" -> "Form460ScheduleCItem"
      [] fam = "D" -> "Form460ScheduleDItem"
      [] fam = "E" -> "Form460ScheduleEItem"
      [] fam = "ESub" -> "Form460ScheduleESubItem"
      [] fam = "G" -> "Form460ScheduleGItem"
      [] fam = "I" -> "Form460ScheduleIItem"

VersionItemTable(fam) ==
    CASE fam = "A" -> "Form460ScheduleAItemVersion"
      [] fam = "C" -> "Form460ScheduleCItemVersion"
      [] fam = "D" -> "Form460ScheduleDItemVersion"
      [] fam = "E" -> "Form460ScheduleEItemVersion"
      [] fam = "ESub" -> "Form460ScheduleESubItemVersion"
      [] fam = "G" -> "Form460ScheduleGItemVersion"
      [] fam = "I" -> "Form460ScheduleIItemVersion"

CurrentItemTables == {CurrentItemTable(fam) : fam \in Families}
VersionItemTables == {VersionItemTable(fam) : fam \in Families}
ItemTables == CurrentItemTables \cup VersionItemTables
Tables == {FilingTable, VersionTable} \cup ItemTables

\* the schedule family of an item table
FamilyOfTable ==
    [t \in ItemTables |->
        CHOOSE fam \in Families : t \in {CurrentItemTable(fam), VersionItemTable(fam)}]

FamilyOf(t) == FamilyOfTable[t]

-----------------------------------------------------------------------------
(* Columns.                                                                *)

\* the 19 nullable integer totals of Form460FilingBase
TotalFields ==
    {"monetary_contributions", "loans_received", "subtotal_cash_contributions",
     "nonmonetary_contributions", "total_contributions", "payments_made",
     "loans_made", "subtotal_cash_payments", "unpaid_bills",
     "nonmonetary_adjustment", "total_expenditures_made", "begin_cash_balance",
     "cash_receipts", "miscellaneous_cash_increases", "cash_payments",
     "ending_cash_balance", "loan_guarantees_received", "cash_equivalents",
     "outstanding_debts"}

\* the columns Form460Filing and Form460FilingVersion inherit from the base
SummaryColumns == {"from_date", "thru_date"} \cup TotalFields

\* the column holding a schedule's monetary amount: Schedule C stores
\* RCPT_CD.AMOUNT as fair_market_value, the other schedules as amount
MonetaryColumn(t) ==
    IF t \in {"Form460ScheduleCItem", "Form460ScheduleCItemVersion"}
    THEN "fair_market_value" ELSE "amount"

\* primary_key=True on Form460Filing.filing_id; Django's automatic id elsewhere
PrimaryKey(t) == IF t = FilingTable THEN "filing_id" ELSE "id"

\* the ForeignKey column of a table (Form460Filing has none)
FkColumn(t) == IF t \in VersionItemTables THEN "filing_version" ELSE "filing"

\* the table a ForeignKey refers to
FkTarget(t) == IF t \in VersionItemTables THEN VersionTable ELSE FilingTable

HasFk(t) == t # FilingTable

Columns(t) ==
    CASE t = FilingTable -> {"filing_id", "amendment_count"} \cup SummaryColumns
      [] t = VersionTable -> {"id", "filing", "amend_id"} \cup SummaryColumns
      [] OTHER -> {"id", FkColumn(t), "line_item", MonetaryColumn(t)}
                  \cup (IF FamilyOf(t) = "G" THEN {"parent_schedule"} ELSE {})

\* CharField columns: blank is the empty string
CharColumns == {"parent_schedule"}

\* SQL NULL in a CharField column (None given by the writer)
NullChar == "NULL"

\* the value x of column c is SQL NULL
IsNull(c, x) == IF c \in CharColumns THEN x = NullChar ELSE x = NULL

\* the values PARENT_SCHEDULE_CHOICES declares for parent_schedule
PARENT_SCHEDULE_CHOICES == {"E", "F"}

-----------------------------------------------------------------------------
(* Constraints declared by the model classes.                              *)

\* NOT NULL columns the abstract bases Campaign*Base hand down to the item
\* tables: line_item everywhere, and amount where the schedule declares no
\* monetary column of its own (D, E, ESub, G)
InheritedNotNullColumns(t) ==
    IF t \in ItemTables
    THEN {"line_item"} \cup
         (IF FamilyOf(t) \in {"D", "E", "ESub", "G"} THEN {"amount"} ELSE {})
    ELSE {}

\* thru_date declared null=True on the version table
DeclaredNotNullThruDateNullable(t) ==
    CASE t = FilingTable ->
             {"filing_id", "amendment_count", "from_date", "thru_date"}
      [] t = VersionTable -> {"amend_id", "from_date"}
      [] FamilyOf(t) \in {"A", "C", "I"} -> {MonetaryColumn(t)}
      [] FamilyOf(t) = "G" -> {"parent_schedule"}
      [] OTHER -> {}

\* NOT NULL columns the classes of form460.py declare: null=False, or a
\* field without null=True (amount of A and I, fair_market_value of C,
\* parent_schedule of G)
DeclaredNotNullColumns(t) ==
    CASE t = FilingTable ->
             {"filing_id", "amendment_count", "from_date", "thru_date"}
      [] t = VersionTable -> {"amend_id", "from_date", "thru_date"}
      [] FamilyOf(t) \in {"A", "C", "I"} -> {MonetaryColumn(t)}
      [] FamilyOf(t) = "G" -> {"parent_schedule"}
      [] OTHER -> {}

\* columns that reject NULL
NotNullColumns(t) == DeclaredNotNullColumns(t) \cup InheritedNotNullColumns(t)

\* unique_together left out of Form460FilingVersion.Meta
UniqueTogetherNotOnVersion(t) ==
    CASE t \in {FilingTable, VersionTable} -> {}
      [] OTHER -> {{FkColumn(t), "line_item"}}

\* unique_together left out of the item tables' Meta
UniqueTogetherNotOnItems(t) ==
    CASE t = VersionTable -> {{"filing", "amend_id"}}
      [] OTHER -> {}

\* Meta.unique_together of a table (Form460Filing declares none)
UniqueTogether(t) ==
    CASE t = FilingTable -> {}
      [] t = VersionTable -> {{"filing", "amend_id"}}
      [] OTHER -> {{FkColumn(t), "line_item"}}

\* whether the database holds a FOREIGN KEY constraint for the table's
\* ForeignKey: db_constraint=False is declared on Form460FilingVersion.filing
\* and Form460ScheduleIItem.filing only, and defaults to True elsewhere
DbConstraint(t) == t \notin {VersionTable, "Form460ScheduleIItem"}

\* on_delete=models.CASCADE on the references to Form460FilingVersion
OnDeleteCascadeFromVersion(t) ==
    IF t \in VersionItemTables THEN "CASCADE" ELSE "SET_NULL"

\* on_delete of the table's ForeignKey: models.SET_NULL on all fifteen
OnDelete(t) == "SET_NULL"

-----------------------------------------------------------------------------
(* Row operations of the store.                                            *)

\* NULLs compared as equal values by the unique index
ConflictsNullsEqual(rows, row, cols) ==
    {r \in rows : \A c \in cols : r[c] = row[c]}

\* the rows of table t that a unique constraint over columns cols makes
\* conflict with row; as in SQL, a NULL in a constrained column never conflicts
Conflicts(rows, row, cols) ==
    {r \in rows : \A c \in cols : row[c] # NULL /\ r[c] = row[c]}

\* filing_id declared without primary_key=True: no uniqueness on it
PrimaryKeyUnchecked(d, t, row) == FALSE

\* the primary-key uniqueness of Form460Filing.filing_id (synthetic ids are
\* handed out by the store and never collide)
PrimaryKeyViolated(d, t, row) ==
    /\ t = FilingTable
    /\ \E r \in d[t] : r[PrimaryKey(t)] = row[PrimaryKey(t)]

UniqueViolated(d, t, row) ==
    \E cols \in UniqueTogether(t) : Conflicts(d[t], row, cols) # {}

NotNullViolated(d, t, row) ==
    \E c \in NotNullColumns(t) : IsNull(c, row[c])

\* the referenced row is missing and the database enforces the reference
ForeignKeyViolated(d, t, row) ==
    /\ HasFk(t)
    /\ DbConstraint(t)
    /\ row[FkColumn(t)] # NULL
    /\ ~ \E p \in d[FkTarget(t)] : p[PrimaryKey(FkTarget(t))] = row[FkColumn(t)]

\* outcome of INSERT of row into table t of store d: the constraint the
\* database reports, or "OK"
InsertResult(d, t, row) ==
    IF NotNullViolated(d, t, row) THEN "NotNullViolation"
    ELSE IF PrimaryKeyViolated(d, t, row) \/ UniqueViolated(d, t, row)
         THEN "UniqueViolation"
    ELSE IF ForeignKeyViolated(d, t, row) THEN "ForeignKeyViolation"
    ELSE "OK"

\* the summary totals declared IntegerField(default=0)
ColumnDefaultZero(t, c) == IF c \in TotalFields THEN 0 ELSE NULL

\* the value a column takes when the written row leaves it absent: no field
\* of form460.py declares a default, so the column stays NULL
ColumnDefault(t, c) == NULL

\* the row as stored: absent columns take the field's default, and tables
\* with a synthetic key get the next id
Stored(t, row, id) ==
    LET saved == [c \in DOMAIN row |->
                     IF c \in CharColumns THEN row[c]
                     ELSE IF row[c] = NULL THEN ColumnDefault(t, c) ELSE row[c]]
    IN  IF PrimaryKey(t) = "id" THEN [saved EXCEPT !["id"] = id] ELSE saved

\* a save() that updates the parent's existing row in place of an INSERT
InsertedReplacing(d, t, row, id) ==
    [d EXCEPT ![t] = (IF HasFk(t)
                      THEN {r \in @ : r[FkColumn(t)] # row[FkColumn(t)]}
                      ELSE @) \cup {Stored(t, row, id)}]

\* store d after a successful INSERT
Inserted(d, t, row, id) == [d EXCEPT ![t] = @ \cup {Stored(t, row, id)}]

\* store d after an attempted INSERT: a rejected row persists nothing
AfterInsert(d, t, row, id) ==
    IF InsertResult(d, t, row) = "OK" THEN Inserted(d, t, row, id) ELSE d

\* a referencing row after its parent p was deleted, by the ForeignKey's on_delete
Orphaned(u, r) ==
    IF OnDelete(u) = "SET_NULL" THEN [r EXCEPT ![FkColumn(u)] = NULL] ELSE r

\* the schedule families in the order their classes are declared
FamilyOrder == <<"A", "C", "D", "E", "ESub", "G", "I">>

\* the tables with a ForeignKey to table t, in the order the deletion
\* collector visits them (the order the classes are declared)
ReferringTables(t) ==
    CASE t = FilingTable ->
             <<VersionTable>> \o [i \in 1..Len(FamilyOrder) |->
                                     CurrentItemTable(FamilyOrder[i])]
      [] t = VersionTable ->
             [i \in 1..Len(FamilyOrder) |-> VersionItemTable(FamilyOrder[i])]
      [] OTHER -> <<>>

\* the rows of table u referring to primary key pk, as one SELECT of the
\* deletion collector finds them: <<table, id>>
ReferringIn(d, u, pk) ==
    {<<u, r.id>> : r \in {x \in d[u] : x[FkColumn(u)] = pk}}

\* the rows referring to the row of table t with primary key pk
Referring(d, t, pk) ==
    UNION {ReferringIn(d, u, pk) :
              u \in {x \in Tables : HasFk(x) /\ FkTarget(x) = t}}

\* store d after the statements of the deletion: on_delete applied to the
\* rows the collector found (UPDATE ... SET parent = NULL WHERE id IN found),
\* then DELETE of the row of table t with primary key pk
Deleted(d, t, pk, found) ==
    [u \in Tables |->
        IF u = t THEN {r \in d[u] : r[PrimaryKey(t)] # pk}
        ELSE IF HasFk(u) /\ FkTarget(u) = t
             THEN {IF <<u, r.id>> \in found THEN Orphaned(u, r) ELSE r :
                      r \in {x \in d[u] : OnDelete(u) = "CASCADE" => <<u, x.id>> \notin found}}
        ELSE d[u]]

\* outcome of the deletion: the UPDATE is subject to the referring tables'
\* unique_together, and the DELETE to the foreign keys the database enforces,
\* which a referring row the collector did not find violates
DeleteResult(d, t, pk, found) ==
    LET after == Deleted(d, t, pk, found)
    IN  IF \E u \in Tables :
               /\ HasFk(u)
               /\ FkTarget(u) = t
               /\ OnDelete(u) = "SET_NULL"
               /\ \E r \in d[u] :
                      /\ <<u, r.id>> \in found
                      /\ \E cols \in UniqueTogether(u) :
                             Conflicts(after[u] \ {Orphaned(u, r)},
                                       Orphaned(u, r), cols) # {}
        THEN "UniqueViolation"
        ELSE IF \E u \in Tables :
                    /\ HasFk(u)
                    /\ FkTarget(u) = t
                    /\ DbConstraint(u)
                    /\ \E r \in after[u] : r[FkColumn(u)] = pk
        THEN "ForeignKeyViolation"
        ELSE "OK"

\* store d after the deletion's transaction: a rejected one is rolled back
AfterDelete(d, t, pk, found) ==
    IF DeleteResult(d, t, pk, found) = "OK" THEN Deleted(d, t, pk, found) ELSE d

-----------------------------------------------------------------------------
(* String forms.                                                           *)

\* '%s' of a column value: None for NULL
Format(x) == IF x = NULL THEN "None" ELSE ToString(x)

\* __str__ of row r of a version-tier item table: the attribute access
\* self.filing_version raises when no parent is set or found
ItemVersionStr(d, r) ==
    LET parents == {v \in d[VersionTable] : v.id = r.filing_version}
    IN  IF r.filing_version = NULL
        THEN [raises |-> "AttributeError", value |-> ""]
        ELSE IF parents = {}
        THEN [raises |-> "DoesNotExist", value |-> ""]
        ELSE LET v == CHOOSE v \in parents : TRUE
             IN  [raises |-> "none",
                  value |-> Format(v.filing) \o "-" \o Format(v.amend_id)
                                \o "-" \o Format(r.line_item)]

-----------------------------------------------------------------------------
(* Rows written by the callers.                                            *)

\* the inherited summary columns: period bounds and totals (one total is
\* varied, the other eighteen are left absent)
Summary(fd, td, mc) ==
    [c \in SummaryColumns |->
        CASE c = "from_date" -> fd
          [] c = "thru_date" -> td
          [] c = "monetary_contributions" -> mc
          [] OTHER -> NULL]

FilingRow(f, n, s) == [filing_id |-> f, amendment_count |-> n] @@ s

VersionRow(f, k, s) == [id |-> NULL, filing |-> f, amend_id |-> k] @@ s

ItemRow(t, p, li, amt) ==
    [c \in Columns(t) |->
        CASE c = "id" -> NULL
          [] c = FkColumn(t) -> p
          [] c = "line_item" -> li
          [] c = "parent_schedule" -> ""
          [] OTHER -> amt]

\* a row with one of the columns cs left absent (NULL)
Lacking(row, cs) == {[row EXCEPT ![c] = NULL] : c \in cs}

\* rows of a direct INSERT: complete, or lacking one column; a writer always
\* names the parent, which becomes absent only by on_delete
FilingInputs ==
    LET full == {FilingRow(f, 0, Summary(20200101, 20200630, NULL)) : f \in FilingIds}
    IN  full \cup UNION {Lacking(r, {"filing_id", "amendment_count", "from_date",
                                     "thru_date"}) : r \in full}

VersionInputs ==
    LET full == {VersionRow(f, k, Summary(20200101, 20200630, NULL)) :
                    f \in FilingIds, k \in {0, 1}}
    IN  full \cup UNION {Lacking(r, {"amend_id", "from_date", "thru_date"}) :
                            r \in full}

\* values a parent reference may be written with
ParentInputs(t) ==
    IF FkTarget(t) = FilingTable THEN FilingIds ELSE 1..MaxRows

ItemInputs ==
    [t \in ItemTables |->
        LET full == {ItemRow(t, p, li, amt) :
                        p \in ParentInputs(t), li \in LineItems, amt \in Amounts}
        IN  full \cup UNION {Lacking(r, {"line_item", MonetaryColumn(t)}) :
                                r \in full}]

-----------------------------------------------------------------------------
(* The store's operations.                                                 *)

AutoTables == Tables \ {FilingTable}

\* number of rows with a synthetic id
RowCount(d) == Cardinality(UNION {{<<t, r.id>> : r \in d[t]} : t \in AutoTables})

\* room for one more row of table t (the model's bound)
Room(t) ==
    t \in AutoTables => RowCount(db) < MaxRows /\ nextId[t] <= MaxRows

\* the seven schedule families share no constraint: a behaviour exercises one
SameFamily(t) ==
    t \in ItemTables =>
        \A u \in ItemTables : db[u] # {} => FamilyOf(u) = FamilyOf(t)

\* Model.objects.create(**row): INSERT, all or nothing; a rejected INSERT
\* leaves the store as it was
Insert(t, row) ==
    /\ InsertResult(db, t, row) = "OK" => Room(t)
    /\ db' = AfterInsert(db, t, row, nextId[t])
    /\ nextId' = [nextId EXCEPT ![t] = IF t \in AutoTables /\ db' # db
                                        THEN @ + 1 ELSE @]
    /\ UNCHANGED <<writers, deleter>>

\* no deletion is in progress
NotDeleting ==
    [pc |-> "idle", table |-> "none", pk |-> NULL, found |-> {}, todo |-> <<>>]

\* the deleting connection dl after the collector's SELECT on the next
\* referring table, read from store d
Selected(dl, d) ==
    LET rest == Tail(dl.todo)
    IN  [dl EXCEPT !.found = @ \cup ReferringIn(d, Head(dl.todo), dl.pk),
                   !.todo = rest,
                   !.pc = IF rest = <<>> THEN "collected" ELSE "collecting"]

\* instance.delete() begins: the collector SELECTs the rows of the first
\* referring table; each SELECT is a statement of its own, and other
\* connections may write between them and before the transaction below
Collect(t, pk) ==
    /\ deleter.pc = "idle"
    /\ \E r \in db[t] : r[PrimaryKey(t)] = pk
    /\ deleter' = Selected([pc |-> "collecting", table |-> t, pk |-> pk,
                            found |-> {}, todo |-> ReferringTables(t)], db)
    /\ UNCHANGED <<db, nextId, writers>>

\* the collector's SELECT on the next referring table
Select ==
    /\ deleter.pc = "collecting"
    /\ deleter' = Selected(deleter, db)
    /\ UNCHANGED <<db, nextId, writers>>

\* instance.delete() ends: one transaction updates the rows found and
\* deletes the instance, or is rolled back
Execute ==
    /\ deleter.pc = "collected"
    /\ db' = AfterDelete(db, deleter.table, deleter.pk, deleter.found)
    /\ deleter' = NotDeleting
    /\ UNCHANGED <<nextId, writers>>

InsertFiling == \E row \in FilingInputs : Insert(FilingTable, row)

InsertVersion == \E row \in VersionInputs : Insert(VersionTable, row)

InsertItem ==
    \E t \in CurrentItemTables :
        SameFamily(t) /\ \E row \in ItemInputs[t] : Insert(t, row)

InsertItemVersion ==
    \E t \in VersionItemTables :
        SameFamily(t) /\ \E row \in ItemInputs[t] : Insert(t, row)

DeleteFiling == \E f \in FilingIds : Collect(FilingTable, f)

DeleteVersion == \E id \in 1..MaxRows : Collect(VersionTable, id)

\* the connections that insert concurrently
Writers == {1, 2}

\* a writer that has not yet chosen a row
Idle == [pc |-> "idle", table |-> "none", row |-> NULL, result |-> "none"]

Init ==
    /\ db = [t \in Tables |-> {}]
    /\ nextId = [t \in Tables |-> 1]
    /\ writers = [w \in Writers |-> Idle]
    /\ deleter = NotDeleting

Next ==
    \/ InsertFiling
    \/ InsertVersion
    \/ InsertItem
    \/ InsertItemVersion
    \/ DeleteFiling
    \/ DeleteVersion
    \/ Select
    \/ Execute

Spec == Init /\ [][Next]_vars

-----------------------------------------------------------------------------
(* The filing-tier operations of the ingestion collaborator.               *)

\* summaries an ingestion writes: both period bounds present, differing in
\* every varied column
SummaryInputs ==
    {Summary(20200101, 20200630, 5000), Summary(20200701, 20201231, NULL)}

\* amendment indices an ingestion registers, in any order; 0 is the original
AmendmentInputs == {1, 2}

FilingOf(d, f) == {r \in d[FilingTable] : r.filing_id = f}

VersionsOf(d, f) == {v \in d[VersionTable] : v.filing = f}

\* outcome of registering filing f: its summary row and its original version
\* (amend_id 0) are inserted together
RegisterFilingResult(d, f, s) ==
    LET r1 == InsertResult(d, FilingTable, FilingRow(f, 0, s)) IN
    IF r1 # "OK" THEN r1
    ELSE InsertResult(Inserted(d, FilingTable, FilingRow(f, 0, s), NULL),
                      VersionTable, VersionRow(f, 0, s))

\* register a new filing: creates the summary row with amendment_count 0 and
\* the version row of the original, or errors and writes nothing
RegisterFiling(f, s) ==
    IF RegisterFilingResult(db, f, s) = "OK"
    THEN /\ db' = Inserted(Inserted(db, FilingTable, FilingRow(f, 0, s), NULL),
                           VersionTable, VersionRow(f, 0, s), nextId[VersionTable])
         /\ nextId' = [nextId EXCEPT ![VersionTable] = @ + 1]
         /\ UNCHANGED <<writers, deleter>>
    ELSE UNCHANGED <<db, nextId, writers, deleter>>

\* amendment index k is the highest seen for filing f
HighestSeen(d, f, k) == \A v \in VersionsOf(d, f) : k > v.amend_id

\* the summary row overwritten by an amendment: its fields are set to the
\* amendment's and amendment_count is incremented
Superseded(r, s) == FilingRow(r.filing_id, r.amendment_count + 1, s)

\* register a new amendment of a registered filing: creates the version row
\* and, if its index is the highest seen, updates the summary row
RegisterAmendment(f, k, s) ==
    /\ FilingOf(db, f) # {}
    /\ IF InsertResult(db, VersionTable, VersionRow(f, k, s)) = "OK"
       THEN /\ db' = [Inserted(db, VersionTable, VersionRow(f, k, s),
                               nextId[VersionTable])
                        EXCEPT ![FilingTable] =
                            IF HighestSeen(db, f, k)
                            THEN {IF r.filing_id = f THEN Superseded(r, s) ELSE r :
                                     r \in db[FilingTable]}
                            ELSE @]
            /\ nextId' = [nextId EXCEPT ![VersionTable] = @ + 1]
            /\ UNCHANGED <<writers, deleter>>
       ELSE UNCHANGED <<db, nextId, writers, deleter>>

RegisterFilingStep ==
    \E f \in FilingIds : \E s \in SummaryInputs : RegisterFiling(f, s)

RegisterAmendmentStep ==
    \E f \in FilingIds : \E k \in AmendmentInputs : \E s \in SummaryInputs :
        RegisterAmendment(f, k, s)

NextRegister ==
    \/ RegisterFilingStep
    \/ RegisterAmendmentStep

SpecRegister == Init /\ [][NextRegister]_vars

-----------------------------------------------------------------------------
(* Properties of the filing tier.                                          *)

\* the highest amend_id among the versions of filing f
MaxAmendId(d, f) ==
    CHOOSE m \in {v.amend_id : v \in VersionsOf(d, f)} :
        \A v \in VersionsOf(d, f) : v.amend_id <= m

\* the versions of filing f with the highest amend_id
LatestVersions(d, f) == {v \in VersionsOf(d, f) : v.amend_id = MaxAmendId(d, f)}

\* C1: after any sequence of registered filings and amendments (in any
\* order, with gaps), the amendment_count of every filing equals the highest
\* amend_id among its versions.
AmendmentCountIsMaxAmendId ==
    \A r \in db[FilingTable] :
        VersionsOf(db, r.filing_id) # {} =>
            r.amendment_count = MaxAmendId(db, r.filing_id)

\* C2: the period bounds and totals of every filing's summary row are those
\* of its version with the highest amend_id: an amendment with the highest
\* index seen overwrote the summary, one with a lower index left it alone.
SummaryIsLatestVersion ==
    \A r \in db[FilingTable] :
        \A v \in LatestVersions(db, r.filing_id) :
            \A c \in SummaryColumns : r[c] = v[c]

\* a filing whose amendment with the highest index was registered before one
\* with a lower index and other figures, the summary showing the former
LowerAmendmentRegisteredLater ==
    \E r \in db[FilingTable] :
        \E v \in LatestVersions(db, r.filing_id) :
            \E w \in VersionsOf(db, r.filing_id) :
                /\ w.amend_id < v.amend_id
                /\ w.id > v.id
                /\ w.amend_id > 0
                /\ w.thru_date # v.thru_date
                /\ r.thru_date = v.thru_date

\* C7: version rows are append-only: registering a filing or an amendment
\* (with the overwrite of the summary row) leaves every version row that
\* existed, the amend_id 0 original included, in the table as it was written.
VersionsAppendOnly ==
    [][\A v \in db[VersionTable] : v \in db'[VersionTable]]_vars

\* a filing whose summary was overwritten by an amendment while its original
\* version still shows the figures it was registered with
OriginalKeptAfterAmendment ==
    \E r \in db[FilingTable] :
        \E v \in VersionsOf(db, r.filing_id) :
            /\ v.amend_id = 0
            /\ r.amendment_count > 0
            /\ r.thru_date # v.thru_date

\* C8: at most one Form460Filing row exists per filing_id, and creating a
\* filing whose filing_id is taken is rejected with a uniqueness violation
\* and leaves the store, the existing row included, as it was.
FilingIdIsKey ==
    \A f \in FilingIds :
        /\ Cardinality(FilingOf(db, f)) <= 1
        /\ FilingOf(db, f) # {} =>
              \A s \in SummaryInputs :
                  /\ InsertResult(db, FilingTable, FilingRow(f, 0, s)) = "UniqueViolation"
                  /\ AfterInsert(db, FilingTable, FilingRow(f, 0, s), NULL) = db
                  /\ RegisterFilingResult(db, f, s) = "UniqueViolation"

\* a stored filing with other figures than a new registration of its
\* filing_id, which is rejected
DuplicateFilingRejected ==
    \E r \in db[FilingTable] :
        \E s \in SummaryInputs :
            /\ s.thru_date # r.thru_date
            /\ InsertResult(db, FilingTable, FilingRow(r.filing_id, 0, s)) # "OK"

-----------------------------------------------------------------------------
(* Writing and reading back the optional summary totals.                   *)

\* values a present total is written with
TotalValues == {0, 5000}

\* sets of totals a written filing leaves absent: none, one, all but one, all
AbsentInputs ==
    {{}, TotalFields} \cup {{c} : c \in TotalFields}
                      \cup {TotalFields \ {c} : c \in TotalFields}

\* a summary with the totals of absent left NULL and the others written as v
TotalsSummary(absent, v) ==
    [c \in SummaryColumns |->
        CASE c = "from_date" -> 20200101
          [] c = "thru_date" -> 20200630
          [] c \in absent -> NULL
          [] OTHER -> v]

TotalsInputs ==
    {FilingRow(f, 0, TotalsSummary(absent, v)) :
        f \in FilingIds, absent \in AbsentInputs, v \in TotalValues}

WriteFiling == \E row \in TotalsInputs : Insert(FilingTable, row)

\* filings are written only: a deletion changes no total of a stored row
NextTotals == WriteFiling

SpecTotals == Init /\ [][NextTotals]_vars

\* C11: a Form460Filing written with any of the sampled subsets of its 19
\* totals absent reads back absent (NULL, never 0) in exactly those totals
\* and the written value in the others.
AbsentTotalsRoundTrip ==
    \A row \in TotalsInputs :
        InsertResult(db, FilingTable, row) = "OK" =>
            LET read == FilingOf(AfterInsert(db, FilingTable, row, NULL),
                                 row.filing_id)
            IN  /\ Cardinality(read) = 1
                /\ \A r \in read :
                       \A c \in TotalFields :
                           /\ row[c] = NULL => r[c] = NULL /\ r[c] # 0
                           /\ row[c] # NULL => r[c] = row[c]

\* a stored filing holds an absent total next to a total written as 0
AbsentAndZeroTotalsStored ==
    \E r \in db[FilingTable] :
        /\ \E c \in TotalFields : r[c] = NULL
        /\ \E c \in TotalFields : r[c] = 0

-----------------------------------------------------------------------------
(* Schedule G items written with a parent_schedule.                        *)

ScheduleGTables == {"Form460ScheduleGItem", "Form460ScheduleGItemVersion"}

\* one-character values a writer gives parent_schedule, blank, and None
ParentScheduleInputs == {"", "E", "F", "X", NullChar}

ScheduleGInputs ==
    [t \in ScheduleGTables |->
        {[ItemRow(t, p, li, amt) EXCEPT !.parent_schedule = ps] :
            p \in ParentInputs(t), li \in LineItems, amt \in Amounts,
            ps \in ParentScheduleInputs}]

InsertScheduleG ==
    \E t \in ScheduleGTables : \E row \in ScheduleGInputs[t] : Insert(t, row)

NextScheduleG ==
    \/ InsertFiling
    \/ InsertVersion
    \/ InsertScheduleG

SpecScheduleG == Init /\ [][NextScheduleG]_vars

-----------------------------------------------------------------------------
(* Two writers inserting at the same time. Each INSERT is one statement,   *)
(* which the storage engine executes atomically together with its          *)
(* constraint checks; the writers interleave around it.                    *)

ConcurrentTables ==
    {FilingTable, VersionTable, "Form460ScheduleAItem", "Form460ScheduleIItem"}

\* complete rows the writers insert; the parent reference is null=True, so a
\* writer may also leave it absent
ConcurrentInputs(t) ==
    CASE t = FilingTable ->
             {FilingRow(f, 0, Summary(20200101, 20200630, NULL)) : f \in FilingIds}
      [] t = VersionTable ->
             {VersionRow(p, k, Summary(20200101, 20200630, NULL)) :
                 p \in FilingIds \cup {NULL}, k \in {0, 1}}
      [] OTHER ->
             {ItemRow(t, p, li, amt) :
                 p \in FilingIds \cup {NULL}, li \in LineItems, amt \in Amounts}

\* writer w chooses the row it is about to insert
Submit(w) ==
    /\ writers[w].pc = "idle"
    /\ \E t \in ConcurrentTables :
           \E row \in ConcurrentInputs(t) :
               writers' = [writers EXCEPT ![w] =
                   [pc |-> "ready", table |-> t, row |-> row, result |-> "none"]]
    /\ UNCHANGED <<db, nextId, deleter>>

\* the storage engine executes writer w's INSERT
Commit(w) ==
    /\ writers[w].pc = "ready"
    /\ LET t == writers[w].table
           row == writers[w].row
       IN  /\ db' = AfterInsert(db, t, row, nextId[t])
           /\ nextId' = [nextId EXCEPT ![t] = IF t \in AutoTables /\ db' # db
                                               THEN @ + 1 ELSE @]
           /\ writers' = [writers EXCEPT ![w].pc = "done",
                                         ![w].result = InsertResult(db, t, row)]
    /\ UNCHANGED deleter

SubmitStep == \E w \in Writers : Submit(w)

CommitStep == \E w \in Writers : Commit(w)

NextConcurrent ==
    \/ SubmitStep
    \/ CommitStep
    \/ InsertFiling

SpecConcurrent == Init /\ [][NextConcurrent]_vars

\* the columns of the unique key of table t
UniqueKey(t) ==
    CASE t = FilingTable -> {"filing_id"}
      [] t = VersionTable -> {"filing", "amend_id"}
      [] OTHER -> {FkColumn(t), "line_item"}

\* both writers have inserted, into the same table and with the same key
SameKeyInserted(v, w) ==
    /\ v # w
    /\ writers[v].pc = "done"
    /\ writers[w].pc = "done"
    /\ writers[v].table = writers[w].table
    /\ \A c \in UniqueKey(writers[v].table) : writers[v].row[c] = writers[w].row[c]

\* of two insertions with one key at most one succeeded, the other was
\* rejected with a uniqueness violation, and one row at most holds the key
OneInsertionWins(v, w) ==
    LET t == writers[v].table
    IN  /\ ~ (writers[v].result = "OK" /\ writers[w].result = "OK")
        /\ writers[v].result = "OK" => writers[w].result = "UniqueViolation"
        /\ Cardinality({r \in db[t] : \A c \in UniqueKey(t) :
                                          r[c] = writers[v].row[c]}) <= 1

\* C12 as stated: whenever two writers insert the same key, an absent parent
\* included, one insertion wins.
ConcurrentInsertsExclusive ==
    \A v, w \in Writers : SameKeyInserted(v, w) => OneInsertionWins(v, w)

\* the stored rows that hold the key of row
KeyHolders(t, row) == {r \in db[t] : \A c \in UniqueKey(t) : r[c] = row[c]}

\* C12: whenever two writers insert the same key and every column of the key
\* is present, under every interleaving at most one insertion succeeds and
\* no two rows hold the key; an insertion executed once a row with its key
\* is stored is rejected with a uniqueness violation and changes nothing.
ConcurrentInsertsExclusiveWhenParented ==
    /\ \A v, w \in Writers :
           /\ SameKeyInserted(v, w)
           /\ \A c \in UniqueKey(writers[v].table) : writers[v].row[c] # NULL
           => /\ ~ (writers[v].result = "OK" /\ writers[w].result = "OK")
              /\ Cardinality(KeyHolders(writers[v].table, writers[v].row)) <= 1
    /\ \A w \in Writers :
           /\ writers[w].pc = "ready"
           /\ \A c \in UniqueKey(writers[w].table) : writers[w].row[c] # NULL
           /\ KeyHolders(writers[w].table, writers[w].row) # {}
           => /\ InsertResult(db, writers[w].table, writers[w].row)
                    = "UniqueViolation"
              /\ AfterInsert(db, writers[w].table, writers[w].row,
                             nextId[writers[w].table]) = db

\* two writers inserted the same (parent, line_item) with a present parent:
\* one succeeded and the other met the uniqueness violation
ConcurrentDuplicateRejected ==
    \E v, w \in Writers :
        /\ SameKeyInserted(v, w)
        /\ writers[v].table \in ItemTables
        /\ writers[v].row[FkColumn(writers[v].table)] # NULL
        /\ writers[v].result = "OK"
        /\ writers[w].result = "UniqueViolation"

-----------------------------------------------------------------------------
(* Properties of the store's constraints.                                  *)

\* the rows a writer may hand to INSERT into table t
RowInputs(t) ==
    CASE t = FilingTable -> FilingInputs
      [] t = VersionTable -> VersionInputs
      [] OTHER -> ItemInputs[t]

\* a stored row of table t carries the same parent and key as row
SamePair(t, key, r, row) ==
    r[FkColumn(t)] = row[FkColumn(t)] /\ r[key] = row[key]

\* C3 as stated: no two Form460FilingVersion rows carry the same
\* (filing, amend_id) pair, an absent filing included.
VersionPairsUnique ==
    \A v, w \in db[VersionTable] :
        SamePair(VersionTable, "amend_id", v, w) => v = w

\* C3: no two Form460FilingVersion rows carry the same (filing, amend_id)
\* pair with a filing that is not absent, and inserting a complete version
\* whose pair is that of an existing row is rejected with a uniqueness
\* violation and leaves the store as it was.
VersionPairsUniqueWhenParented ==
    /\ \A v, w \in db[VersionTable] :
           v.filing # NULL /\ SamePair(VersionTable, "amend_id", v, w) => v = w
    /\ \A row \in VersionInputs :
           /\ row.from_date # NULL
           /\ row.thru_date # NULL
           /\ \E v \in db[VersionTable] : SamePair(VersionTable, "amend_id", v, row)
           => /\ InsertResult(db, VersionTable, row) = "UniqueViolation"
              /\ AfterInsert(db, VersionTable, row, nextId[VersionTable]) = db

\* a version is stored and a second one for its (filing, amend_id) is rejected
DuplicateVersionRejected ==
    \E row \in VersionInputs :
        /\ \E v \in db[VersionTable] : SamePair(VersionTable, "amend_id", v, row)
        /\ InsertResult(db, VersionTable, row) = "UniqueViolation"

\* C4 as stated: in each itemization table no two rows carry the same
\* (parent, line_item) pair, an absent parent included.
ItemPairsUnique ==
    \A t \in ItemTables :
        \A r, q \in db[t] : SamePair(t, "line_item", r, q) => r = q

\* C4: in each of the fourteen itemization tables no two rows carry the same
\* (parent, line_item) pair with a parent that is not absent, and attaching
\* a complete item whose pair is already present is rejected with a
\* uniqueness violation and leaves the store as it was.
ItemPairsUniqueWhenParented ==
    \A t \in ItemTables :
        /\ \A r, q \in db[t] :
               r[FkColumn(t)] # NULL /\ SamePair(t, "line_item", r, q) => r = q
        /\ \A row \in ItemInputs[t] :
               /\ row[MonetaryColumn(t)] # NULL
               /\ \E r \in db[t] : SamePair(t, "line_item", r, row)
               => /\ InsertResult(db, t, row) = "UniqueViolation"
                  /\ AfterInsert(db, t, row, nextId[t]) = db

\* an item is stored and a second one for its (parent, line_item) is rejected
DuplicateItemRejected ==
    \E t \in ItemTables :
        \E row \in ItemInputs[t] :
            /\ \E r \in db[t] : SamePair(t, "line_item", r, row)
            /\ InsertResult(db, t, row) = "UniqueViolation"

\* the rows of table t after its parent pk was deleted: the same rows, those
\* that referred to pk with an absent parent and nothing else changed
OrphanedBy(t, pk) ==
    /\ Cardinality(db'[t]) = Cardinality(db[t])
    /\ \A r \in db[t] :
           IF r[FkColumn(t)] = pk
           THEN [r EXCEPT ![FkColumn(t)] = NULL] \in db'[t]
           ELSE r \in db'[t]

\* the deletion of the row of table t with primary key pk is carried out
Deletes(t, pk) ==
    /\ deleter.pc = "collected"
    /\ deleter.table = t
    /\ deleter.pk = pk
    /\ deleter' = NotDeleting
    /\ DeleteResult(db, t, pk, deleter.found) = "OK"
    /\ Execute

\* C5: deleting a Form460Filing row removes that row only: its versions and
\* current-tier items stay, unchanged but for an absent filing; the rows of
\* other filings and all version-tier items are untouched.
DeleteFilingOrphans ==
    [][\A f \in FilingIds :
          Deletes(FilingTable, f) =>
              /\ db'[FilingTable] = db[FilingTable] \ FilingOf(db, f)
              /\ \A t \in {VersionTable} \cup CurrentItemTables : OrphanedBy(t, f)
              /\ \A t \in VersionItemTables : db'[t] = db[t]]_vars

\* C6: deleting a Form460FilingVersion row removes that row only: its
\* version-tier items stay, unchanged but for an absent filing_version; the
\* filings, the other versions and the current-tier items are untouched.
DeleteVersionOrphans ==
    [][\A id \in 1..MaxRows :
          Deletes(VersionTable, id) =>
              /\ db'[FilingTable] = db[FilingTable]
              /\ db'[VersionTable] = {v \in db[VersionTable] : v.id # id}
              /\ \A t \in VersionItemTables : OrphanedBy(t, id)
              /\ \A t \in CurrentItemTables : db'[t] = db[t]]_vars

\* a version-tier item left behind by a deleted version
VersionItemOrphaned ==
    \E t \in VersionItemTables : \E r \in db[t] : r.filing_version = NULL

\* the parent a row names is not in the store
Dangling(d, t, row) ==
    ~ \E p \in d[FkTarget(t)] : p[PrimaryKey(FkTarget(t))] = row[FkColumn(t)]

\* C9: no parent reference is enforced at write time: a complete row of any
\* of the fifteen referring tables that names a missing parent, and breaks
\* no uniqueness, is accepted.
NoParentReferenceEnforced ==
    \A t \in AutoTables :
        \A row \in RowInputs(t) :
            /\ Dangling(db, t, row)
            /\ ~ NotNullViolated(db, t, row)
            /\ ~ UniqueViolated(db, t, row)
            => InsertResult(db, t, row) = "OK"

\* the columns C10 names as required on insertion
RequiredOnInsert(t) ==
    CASE t = FilingTable ->
             {"filing_id", "amendment_count", "from_date", "thru_date"}
      [] t = VersionTable -> {"amend_id", "from_date", "thru_date"}
      [] OTHER -> {"line_item", MonetaryColumn(t)}

\* C10: no stored row lacks a required column (filing_id, amendment_count,
\* the period bounds, amend_id, line_item, the monetary amount), and an
\* insertion lacking one is rejected and persists nothing.
RequiredFieldsPresent ==
    \A t \in Tables :
        /\ \A r \in db[t] : \A c \in RequiredOnInsert(t) : r[c] # NULL
        /\ \A row \in RowInputs(t) :
               (\E c \in RequiredOnInsert(t) : row[c] = NULL)
               => /\ InsertResult(db, t, row) = "NotNullViolation"
                  /\ AfterInsert(db, t, row, nextId[t]) = db

\* complete rows of all three kinds are stored while an incomplete item of
\* the populated table is rejected
IncompleteRowRejected ==
    /\ db[FilingTable] # {}
    /\ db[VersionTable] # {}
    /\ \E t \in ItemTables :
           /\ db[t] # {}
           /\ \E row \in ItemInputs[t] :
                  InsertResult(db, t, row) = "NotNullViolation"

-----------------------------------------------------------------------------
(* Properties of the two itemization tiers.                                *)

\* the (line_item, fields) of the rows of table t that refer to parent p:
\* every column but the synthetic id and the parent reference
Projection(d, t, p) ==
    {[c \in Columns(t) \ {"id", FkColumn(t)} |-> r[c]] :
        r \in {x \in d[t] : x[FkColumn(t)] = p}}

\* C13: in every state, for every stored filing and schedule family, the
\* current-tier items of the filing are, by (line_item, fields), the
\* version-tier items of its version with the highest amend_id, and no step
\* removes a version-tier item row.
CurrentIsLatestProjection ==
    /\ [](\A f \in {r.filing_id : r \in db[FilingTable]} :
             \A fam \in Families :
                 \A v \in LatestVersions(db, f) :
                     Projection(db, CurrentItemTable(fam), f)
                         = Projection(db, VersionItemTable(fam), v.id))
    /\ [][\A t \in VersionItemTables :
             \A r \in db[t] : \E x \in db'[t] : x.id = r.id]_vars

-----------------------------------------------------------------------------
(* Properties of orphaned rows.                                            *)

\* C14: deleting a Form460Filing is never blocked by a uniqueness
\* constraint: a deletion in progress is not rejected by one, and a deletion
\* carried out at once succeeds and leaves every version and current-tier
\* item that referred to the filing, with an absent parent, also when
\* another orphaned row already carries the same (absent, amend_id) or
\* (absent, line_item) pair.
DeleteNeverBlocked ==
    /\ deleter.pc = "collected" =>
           DeleteResult(db, deleter.table, deleter.pk, deleter.found)
               # "UniqueViolation"
    /\ \A f \in FilingIds :
           FilingOf(db, f) # {} =>
               LET found == Referring(db, FilingTable, f)
                   after == AfterDelete(db, FilingTable, f, found)
               IN  /\ DeleteResult(db, FilingTable, f, found) = "OK"
                   /\ FilingOf(after, f) = {}
                   /\ \A t \in {VersionTable} \cup CurrentItemTables :
                          /\ Cardinality(after[t]) = Cardinality(db[t])
                          /\ \A r \in db[t] :
                                 r.filing = f =>
                                     [r EXCEPT !.filing = NULL] \in after[t]

\* both filings were deleted and their two versions, or their two items of
\* one schedule, remain with an absent parent and the same amend_id or
\* line_item
OrphansShareKey ==
    /\ db[FilingTable] = {}
    /\ \E t \in {VersionTable} \cup CurrentItemTables :
           \E r, q \in db[t] :
               /\ r # q
               /\ r.filing = NULL
               /\ q.filing = NULL
               /\ \A c \in UniqueKey(t) : r[c] = q[c]

\* C15: the string form of every version-tier item row is defined, in every
\* state, and is '<filing_id>-<amend_id>-<line_item>' of its parent version.
ItemVersionStrDefined ==
    \A t \in VersionItemTables :
        \A r \in db[t] :
            /\ ItemVersionStr(db, r).raises = "none"
            /\ \E f \in FilingIds \cup {NULL} : \E k \in {0, 1} :
                   ItemVersionStr(db, r).value
                       = Format(f) \o "-" \o Format(k) \o "-" \o Format(r.line_item)

\* C16: every stored Schedule G item, of either tier, has a parent_schedule
\* that is blank or declared in PARENT_SCHEDULE_CHOICES, and an item written
\* with another value is not accepted.
ParentScheduleIsDeclared ==
    \A t \in ScheduleGTables :
        /\ \A r \in db[t] : r.parent_schedule \in {""} \cup PARENT_SCHEDULE_CHOICES
        /\ \A row \in ScheduleGInputs[t] :
               row.parent_schedule \notin {""} \cup PARENT_SCHEDULE_CHOICES
               => InsertResult(db, t, row) # "OK"

====
